---- MODULE Spec2Model ----
(***************************************************************************)
(* A model of inventory_system.py: one dict from item name to quantity,    *)
(* mutated by add_item / remove_item, queried by get_qty and               *)
(* check_low_items, and flushed to / read from JSON files by save_data /   *)
(* load_data.                                                              *)
(*                                                                         *)
(* Python values are records [t, s, n]: t is the value's type, s the       *)
(* characters of a str, n the number of an int or bool.  A dict is the     *)
(* sequence of its entries [k, v] in insertion order, which is the order   *)
(* Python iterates a dict in.  A text is a sequence of one-character       *)
(* strings.                                                                *)
(***************************************************************************)
EXTENDS Integers, Sequences, FiniteSets, TLC

VARIABLES
    data,       \* the inventory dict (stock_data of main)
    files,      \* the file system: path -> [exists, text]
    call,       \* the call made last: [op, item, qty, path, threshold]
    pre,        \* the dict as it was when that call was made
    preFiles,   \* the file system as it was when that call was made
    ret,        \* what the call returned
    err,        \* the exception that left the call, "none" when it returned
    saved       \* history: path -> the dict save_data wrote there last

vars == <<data, files, call, pre, preFiles, ret, err, saved>>

----------------------------------------------------------------------------
(* Bounds *)

\* quantities passed to add_item / remove_item range over -MaxQty..MaxQty
MaxQty == 2
\* calls are explored while every stored quantity stays in -MaxDebt..MaxStock
MaxStock == 2
MaxDebt == 1
\* the quantities of the dicts handed to save_data range over -1..MaxSaved,
\* with MaxSaved * MaxSaved beside them
MaxSaved == 11

----------------------------------------------------------------------------
(* Python values *)

PyStr(chars) == [t |-> "str", s |-> chars, n |-> 0]

PyInt(i) == [t |-> "int", s |-> <<>>, n |-> i]

\* bool is a subclass of int: True is 1, False is 0
PyBool(b) == [t |-> "bool", s |-> <<>>, n |-> IF b THEN 1 ELSE 0]

\* a float, of which only the type matters here (n is its value in tenths)
PyFloat(tenths) == [t |-> "float", s |-> <<>>, n |-> tenths]

PyNone == [t |-> "NoneType", s |-> <<>>, n |-> 0]

\* a list, such as ["apple"]: neither a str nor hashable
PyList(chars) == [t |-> "list", s |-> chars, n |-> 0]

\* isinstance(x, str)
IsInstanceStr(x) == x.t = "str"

\* isinstance(x, int): an int, or a bool, which subclasses int
IsInstanceInt(x) == x.t \in {"int", "bool"}

\* the truth value of a str: false exactly for ""
Truthy(x) == x.s # <<>>

\* whether int arithmetic and ordering against x are defined
IsNumber(x) == x.t \in {"int", "bool"}

----------------------------------------------------------------------------
(* dict *)

\* item in data
Has(d, k) == \E i \in 1..Len(d) : d[i].k = k

\* the position of key k in d's iteration order
IndexOf(d, k) == CHOOSE i \in 1..Len(d) : d[i].k = k

\* data[item], for a key that is present
Lookup(d, k) == d[IndexOf(d, k)].v

\* data.get(item, default)
DictGet(d, k, default) == IF Has(d, k) THEN Lookup(d, k) ELSE default

\* data[item] = v: a present key keeps its place, a new key goes last
DictSet(d, k, v) ==
    IF Has(d, k)
    THEN [i \in 1..Len(d) |-> IF d[i].k = k THEN [k |-> k, v |-> v] ELSE d[i]]
    ELSE Append(d, [k |-> k, v |-> v])

DictClear(d, k) == <<>>

\* del data[item]
DictDel(d, k) ==
    LET live(i) == d[i].k # k
        RECURSIVE keep(_)
        keep(i) == IF i > Len(d) THEN <<>>
                   ELSE IF live(i) THEN <<d[i]>> \o keep(i + 1)
                   ELSE keep(i + 1)
    IN  keep(1)

\* the keys of d
Keys(d) == {d[i].k : i \in 1..Len(d)}

----------------------------------------------------------------------------
(* The calls *)

NoCall == [op |-> "none", item |-> PyNone, qty |-> PyNone, path |-> "",
           threshold |-> 0]

AddCall(item, qty) == [NoCall EXCEPT !.op = "add", !.item = item, !.qty = qty]

RemoveCall(item, qty) ==
    [NoCall EXCEPT !.op = "remove", !.item = item, !.qty = qty]

GetCall(item) == [NoCall EXCEPT !.op = "get", !.item = item]

LowCall(threshold) == [NoCall EXCEPT !.op = "low", !.threshold = threshold]

\* every stored quantity is within the explored range
InRange(d) == \A i \in 1..Len(d) : d[i].v \in -MaxDebt..MaxStock

----------------------------------------------------------------------------
(* add_item *)

\* line 30: both isinstance tests pass
AddTypesOk(item, qty) == IsInstanceStr(item) /\ IsInstanceInt(qty)

AddNameOkAlways(item) == TRUE

\* line 34: the name is not empty
AddNameOk(item) == Truthy(item)

AddedAssign(d, item, qty) == DictSet(d, item, qty.n)

\* line 38: data[item] = data.get(item, 0) + qty
Added(d, item, qty) == DictSet(d, item, DictGet(d, item, 0) + qty.n)

AddItem(item, qty) ==
    /\ call' = AddCall(item, qty)
    /\ pre' = data
    /\ preFiles' = files
    /\ ret' = PyNone
    /\ err' = "none"
    /\ IF ~AddTypesOk(item, qty)
       THEN data' = data                    \* logging.error; return
       ELSE IF ~AddNameOk(item)
       THEN data' = data                    \* logging.warning; return
       ELSE /\ data' = Added(data, item, qty)
            /\ InRange(data')
    /\ UNCHANGED <<files, saved>>

----------------------------------------------------------------------------
(* remove_item *)

RemoveKeepsOrEqual(cur, qty) == cur >= qty.n

\* line 55: data[item] > qty
RemoveKeeps(cur, qty) == cur > qty.n

RemovedAdding(d, item, qty) ==
    IF RemoveKeeps(Lookup(d, item), qty)
    THEN DictSet(d, item, Lookup(d, item) + qty.n)
    ELSE DictDel(d, item)

\* lines 55-62: decrement while stock remains, else delete the entry
Removed(d, item, qty) ==
    IF RemoveKeeps(Lookup(d, item), qty)
    THEN DictSet(d, item, Lookup(d, item) - qty.n)
    ELSE DictDel(d, item)

RemoveMissingRaises(d) == [data |-> d, err |-> "KeyError"]

\* lines 63-66: the KeyError of data[item] is caught and logged
RemoveMissing(d) == [data |-> d, err |-> "none"]

RemoveItem(item, qty) ==
    /\ call' = RemoveCall(item, qty)
    /\ pre' = data
    /\ preFiles' = files
    /\ ret' = PyNone
    /\ IF ~Has(data, item)
       THEN /\ data' = RemoveMissing(data).data
            /\ err' = RemoveMissing(data).err
       ELSE IF ~IsNumber(qty)
       THEN /\ data' = data                 \* int > str: TypeError, not caught
            /\ err' = "TypeError"
       ELSE /\ data' = Removed(data, item, qty)
            /\ InRange(data')
            /\ err' = "none"
    /\ UNCHANGED <<files, saved>>

----------------------------------------------------------------------------
(* get_qty *)

\* line 80: data.get(item, 0)
GetQtyOf(d, item) == DictGet(d, item, 0)

GetQty(item) ==
    /\ call' = GetCall(item)
    /\ pre' = data
    /\ preFiles' = files
    /\ ret' = GetQtyOf(data, item)
    /\ err' = "none"
    /\ UNCHANGED <<data, files, saved>>

----------------------------------------------------------------------------
(* check_low_items *)

IsLowOrEqual(qty, threshold) == qty <= threshold

\* line 156: qty < threshold
IsLow(qty, threshold) == qty < threshold

\* line 156: [item for item, qty in data.items() if qty < threshold]
LowItems(d, threshold) ==
    LET RECURSIVE from(_)
        from(i) == IF i > Len(d) THEN <<>>
                   ELSE IF IsLow(d[i].v, threshold)
                   THEN <<d[i].k>> \o from(i + 1)
                   ELSE from(i + 1)
    IN  from(1)

CheckLowItems(threshold) ==
    /\ call' = LowCall(threshold)
    /\ pre' = data
    /\ preFiles' = files
    /\ ret' = LowItems(data, threshold)
    /\ err' = "none"
    /\ UNCHANGED <<data, files, saved>>

----------------------------------------------------------------------------
(* json.dump(data, f, indent=4), for a dict from str to int *)

DigitChar == <<"0", "1", "2", "3", "4", "5", "6", "7", "8", "9">>

\* the decimal digits of a natural number
RECURSIVE Digits(_)
Digits(i) ==
    IF i < 10 THEN <<DigitChar[i + 1]>>
    ELSE Digits(i \div 10) \o <<DigitChar[(i % 10) + 1]>>

\* int.__repr__, which the encoder writes an int value with
IntStr(i) == IF i < 0 THEN <<"-">> \o Digits(-i) ELSE Digits(i)

EscapeCharQuoteOnly(c) ==
    IF c = "\"" THEN <<"\\", "\"">> ELSE <<c>>

\* ESCAPE_DCT of json.encoder, for the characters a name here can hold
EscapeChar(c) ==
    CASE c = "\"" -> <<"\\", "\"">>
      [] c = "\\" -> <<"\\", "\\">>
      [] c = "\n" -> <<"\\", "n">>
      [] c = "\r" -> <<"\\", "r">>
      [] c = "\t" -> <<"\\", "t">>
      [] OTHER -> <<c>>

\* encode_basestring_ascii: the key between quotes, its characters escaped
RECURSIVE EscapeFrom(_, _)
EscapeFrom(chars, i) ==
    IF i > Len(chars) THEN <<>>
    ELSE EscapeChar(chars[i]) \o EscapeFrom(chars, i + 1)

EncodeStr(chars) == <<"\"">> \o EscapeFrom(chars, 1) \o <<"\"">>

\* newline_indent at level 1: a line break and indent=4 spaces
NewlineIndent == <<"\n", " ", " ", " ", " ">>

\* one entry: the key, key_separator ": ", the value
EncodeEntry(e) == EncodeStr(e.k.s) \o <<":", " ">> \o IntStr(e.v)

\* the entries, item_separator "," + newline_indent between them
RECURSIVE EncodeEntries(_, _)
EncodeEntries(d, i) ==
    IF i > Len(d) THEN <<>>
    ELSE (IF i = 1 THEN <<>> ELSE <<",">> \o NewlineIndent)
             \o EncodeEntry(d[i]) \o EncodeEntries(d, i + 1)

\* _iterencode_dict: '{}' for an empty dict, else one entry a line
Dumps(d) ==
    IF d = <<>> THEN <<"{", "}">>
    ELSE <<"{">> \o NewlineIndent \o EncodeEntries(d, 1) \o <<"\n", "}">>

----------------------------------------------------------------------------
(* json.load(f), for the texts a file here can hold: an object whose     *)
(* values are integers, or a text that is no JSON.  A result is           *)
(* [ok, val, pos]: whether the scan succeeded, the value, and the index   *)
(* after it.                                                              *)

Fail == [ok |-> FALSE, val |-> <<>>, pos |-> 0]

\* s[i:i+1]: the character at i, '' past the end
At(t, i) == IF i >= 1 /\ i <= Len(t) THEN t[i] ELSE ""

Whitespace == {" ", "\t", "\n", "\r"}

\* WHITESPACE.match(s, i).end()
RECURSIVE SkipWs(_, _)
SkipWs(t, i) == IF At(t, i) \in Whitespace THEN SkipWs(t, i + 1) ELSE i

\* BACKSLASH of json.decoder (without 'b' and 'u', which no text here holds)
IsEscape(c) == c \in {"\"", "\\", "/", "n", "r", "t"}

Unescape(c) ==
    CASE c = "n" -> "\n"
      [] c = "r" -> "\r"
      [] c = "t" -> "\t"
      [] OTHER -> c

\* the character an escape pair stands for, appended to the string so far
AppendEscaped(acc, c) == Append(acc, Unescape(c))

\* py_scanstring from the character after the opening quote (strict)
RECURSIVE ScanString(_, _, _)
ScanString(t, i, acc) ==
    LET c == At(t, i)
    IN  IF c = "" THEN Fail                       \* unterminated string
        ELSE IF c = "\"" THEN [ok |-> TRUE, val |-> acc, pos |-> i + 1]
        ELSE IF c = "\\"
        THEN IF IsEscape(At(t, i + 1))
             THEN ScanString(t, i + 2, AppendEscaped(acc, At(t, i + 1)))
             ELSE Fail                            \* invalid \escape
        ELSE IF c \in {"\n", "\r", "\t"} THEN Fail  \* control character
        ELSE ScanString(t, i + 1, Append(acc, c))

IsDigit(c) == \E j \in 1..10 : DigitChar[j] = c

DigitValue(c) == (CHOOSE j \in 1..10 : DigitChar[j] = c) - 1

\* \d*: the digits from i on, folded into the number so far
RECURSIVE ScanDigits(_, _, _)
ScanDigits(t, i, acc) ==
    IF IsDigit(At(t, i))
    THEN ScanDigits(t, i + 1, 10 * acc + DigitValue(At(t, i)))
    ELSE [ok |-> TRUE, val |-> acc, pos |-> i]

\* (0|[1-9]\d*) of NUMBER_RE
ScanNatural(t, i) ==
    IF At(t, i) = "0" THEN [ok |-> TRUE, val |-> 0, pos |-> i + 1]
    ELSE IF IsDigit(At(t, i)) THEN ScanDigits(t, i, 0)
    ELSE Fail

\* NUMBER_RE and int(): -?(0|[1-9]\d*)
ScanInt(t, i) ==
    IF At(t, i) = "-"
    THEN LET r == ScanNatural(t, i + 1)
         IN  IF r.ok THEN [r EXCEPT !.val = -r.val] ELSE Fail
    ELSE ScanNatural(t, i)

\* JSONObject, from the opening quote of a key at i, the pairs so far in acc
RECURSIVE ScanPairs(_, _, _)
ScanPairs(t, i, acc) ==
    LET key == ScanString(t, i + 1, <<>>)
        colon == SkipWs(t, key.pos)
        val == ScanInt(t, SkipWs(t, colon + 1))
        after == SkipWs(t, val.pos)
        next == SkipWs(t, after + 1)
        got == DictSet(acc, PyStr(key.val), val.val)
    IN  IF ~key.ok THEN Fail
        ELSE IF At(t, colon) # ":" THEN Fail      \* expecting ':'
        ELSE IF ~val.ok THEN Fail                 \* expecting value
        ELSE IF At(t, after) = "}"
        THEN [ok |-> TRUE, val |-> got, pos |-> after + 1]
        ELSE IF At(t, after) # "," THEN Fail      \* expecting ','
        ELSE IF At(t, next) # "\"" THEN Fail      \* expecting property name
        ELSE ScanPairs(t, next, got)

\* JSONObject, from the character after '{'
ScanObject(t, i) ==
    LET j == SkipWs(t, i)
    IN  IF At(t, j) = "}" THEN [ok |-> TRUE, val |-> <<>>, pos |-> j + 1]
        ELSE IF At(t, j) # "\"" THEN Fail
        ELSE ScanPairs(t, j, <<>>)

LoadsNoTrailingCheck(t) ==
    LET i == SkipWs(t, 1)
    IN  IF At(t, i) # "{" THEN Fail ELSE ScanObject(t, i + 1)

\* JSONDecoder.decode: one value between whitespace, and nothing after it
Loads(t) ==
    LET i == SkipWs(t, 1)
        obj == IF At(t, i) # "{" THEN Fail ELSE ScanObject(t, i + 1)
    IN  IF ~obj.ok THEN Fail
        ELSE IF SkipWs(t, obj.pos) # Len(t) + 1 THEN Fail   \* extra data
        ELSE obj

----------------------------------------------------------------------------
(* load_data, save_data *)

Absent == [exists |-> FALSE, text |-> <<>>]

File(text) == [exists |-> TRUE, text |-> text]

LoadCall(path) == [NoCall EXCEPT !.op = "load", !.path = path]

SaveCall(path) == [NoCall EXCEPT !.op = "save", !.path = path]

\* lines 97-109: the decoded dict, {} for a missing or an undecodable file
Loaded(file) ==
    IF ~file.exists THEN <<>>                     \* FileNotFoundError
    ELSE IF Loads(file.text).ok THEN Loads(file.text).val
    ELSE <<>>                                     \* JSONDecodeError

\* load_data, and the assignment of its result (main, line 161)
LoadData(path) ==
    /\ call' = LoadCall(path)
    /\ pre' = data
    /\ preFiles' = files
    /\ ret' = Loaded(files[path])
    /\ data' = ret'
    /\ err' = "none"
    /\ UNCHANGED <<files, saved>>

\* lines 123-124: open(file, "w") truncates, json.dump writes the text
Written(file, d) == File(Dumps(d))

SaveData(path) ==
    /\ call' = SaveCall(path)
    /\ pre' = data
    /\ preFiles' = files
    /\ files' = [files EXCEPT ![path] = Written(files[path], data)]
    /\ saved' = [saved EXCEPT ![path] = [t |-> "dict", s |-> data, n |-> 0]]
    /\ ret' = PyNone
    /\ err' = "none"
    /\ UNCHANGED data

----------------------------------------------------------------------------
(* The inputs *)

\* item names a caller passes
Names == {PyStr(<<"a">>), PyStr(<<"b">>), PyStr(<<"c", "\"", "\\">>)}

\* items that are no names: "", 123 (main, line 165), a list
BadItems == {PyStr(<<>>), PyInt(123), PyList(<<"a">>)}

IntQtys == {PyInt(i) : i \in -MaxQty..MaxQty}

\* quantities that are no int: "ten" (main, line 165), 1.5, None
BadQtys == {PyStr(<<"t", "e", "n">>), PyFloat(15), PyNone}

\* the arguments of add_item: a name with an int or True, what is no name
\* with an int or with what is no int, a name with what is no int
AddInputs ==
    (Names \X (IntQtys \cup {PyBool(TRUE)}))
        \cup (BadItems \X {PyInt(1), PyStr(<<"t", "e", "n">>)})
        \cup ({PyStr(<<"a">>)} \X BadQtys)

\* the arguments of remove_item: the item is hashable (data[item] hashes it
\* first), and a float is passed only with an item that is never in stock
RemoveInputs ==
    (Names \X (IntQtys \cup {PyBool(TRUE), PyStr(<<"t", "e", "n">>), PyNone}))
        \cup ({PyStr(<<>>), PyInt(123)} \X ({PyInt(1)} \cup BadQtys))

GetItems == Names \cup {PyStr(<<>>), PyInt(123)}

Thresholds == -MaxDebt..(MaxStock + 1)

Paths == {"inventory.json", "backup.json"}

Init ==
    /\ data = <<>>
    /\ files = [p \in Paths |-> Absent]
    /\ call = NoCall
    /\ pre = <<>>
    /\ preFiles = files
    /\ ret = PyNone
    /\ err = "none"
    /\ saved = [p \in Paths |-> PyNone]

Next ==
    \/ \E arg \in AddInputs : AddItem(arg[1], arg[2])
    \/ \E arg \in RemoveInputs : RemoveItem(arg[1], arg[2])
    \/ \E item \in GetItems : GetQty(item)
    \/ \E threshold \in Thresholds : CheckLowItems(threshold)

Spec == Init /\ [][Next]_vars

----------------------------------------------------------------------------
(* Saving and loading: the dict is any dict add_item can have built, the *)
(* files hold what an earlier run or an editor left there.               *)

\* {not json
NotJson == <<"{", "n", "o", "t", " ", "j", "s", "o", "n">>

\* a save cut short: {"a": 7,
CutShort == <<"{", "\"", "a", "\"", ":", " ", "7", ",">>

\* an object followed by more: {"a": 7}}
ExtraData == <<"{", "\"", "a", "\"", ":", " ", "7", "}", "}">>

\* texts that are no JSON, the empty file among them
CorruptTexts == {<<>>, NotJson, CutShort, ExtraData}

\* JSON written by hand, on one line: {"a":7, "b" : 20}
Compact == <<"{", "\"", "a", "\"", ":", "7", ",", " ", "\"", "b", "\"", " ",
             ":", " ", "2", "0", "}">>

InitFiles == {Absent, File(Compact)} \cup {File(t) : t \in CorruptTexts}

\* -1 and the small quantities, and one of more digits
SavedQtys == (-1..MaxSaved) \cup {MaxSaved * MaxSaved}

SavedNames == {PyStr(<<"a">>), PyStr(<<"c", "\"", "\\">>)}

\* the dicts over these names, their keys distinct and in any order
RECURSIVE DictsOfLen(_)
DictsOfLen(len) ==
    IF len = 0 THEN {<<>>}
    ELSE {Append(d, [k |-> k, v |-> v]) :
              d \in DictsOfLen(len - 1), k \in SavedNames, v \in SavedQtys}

SavedDicts ==
    {d \in UNION {DictsOfLen(len) : len \in 0..Cardinality(SavedNames)} :
        \A i, j \in 1..Len(d) : i # j => d[i].k # d[j].k}

FileInit ==
    /\ data \in SavedDicts
    /\ files \in [Paths -> InitFiles]
    /\ call = NoCall
    /\ pre = data
    /\ preFiles = files
    /\ ret = PyNone
    /\ err = "none"
    /\ saved = [p \in Paths |-> PyNone]

FileNext ==
    \/ \E path \in Paths : LoadData(path)
    \/ \E path \in Paths : SaveData(path)

FileSpec == FileInit /\ [][FileNext]_vars

----------------------------------------------------------------------------
(* Properties *)

\* the last call was add_item with a non-empty str and an int
ValidAdd ==
    /\ call.op = "add"
    /\ call.item.t = "str" /\ call.item.s # <<>>
    /\ call.qty.t \in {"int", "bool"}

\* the last call was remove_item of an item in stock, with an int
RemoveOfStocked ==
    /\ call.op = "remove"
    /\ Has(pre, call.item)
    /\ call.qty.t \in {"int", "bool"}

\* C1: every item in the dict has a strictly positive quantity, in every
\* state add_item and remove_item reach from the empty dict.
QuantitiesPositive == \A i \in 1..Len(data) : data[i].v > 0

\* C2: after add_item with a non-empty str and an int, get_qty of the item
\* is get_qty of it before the call plus qty, an absent item counting 0.
AddThenGet ==
    ValidAdd =>
        /\ GetQtyOf(data, call.item) = GetQtyOf(pre, call.item) + call.qty.n
        /\ err = "none"

AddThenGetWitness ==
    /\ ValidAdd
    /\ Has(pre, call.item)
    /\ call.qty.n = 2
    /\ Lookup(pre, call.item) = -1
    /\ Lookup(data, call.item) = 1

\* C3: add_item with an item that is no str, a qty that is no int, or the
\* empty name leaves the dict as it was and raises nothing.
AddRejectsBadInput ==
    (/\ call.op = "add"
     /\ \/ call.item.t # "str"
        \/ call.qty.t \notin {"int", "bool"}
        \/ call.item = PyStr(<<>>))
        => data = pre /\ err = "none"

AddRejectsWitness ==
    /\ call.op = "add"
    /\ call.item = PyStr(<<>>)
    /\ call.qty = PyInt(1)
    /\ Len(pre) = 2
    /\ data = pre

\* C4: remove_item of a stocked item with an int qty >= its quantity
\* leaves the item absent, and remove_item with an int never leaves the
\* item stored with a quantity of zero or less.
RemoveDepletes ==
    RemoveOfStocked =>
        /\ call.qty.n >= Lookup(pre, call.item) => ~Has(data, call.item)
        /\ Has(data, call.item) => Lookup(data, call.item) > 0
        /\ err = "none"

RemoveDepletesWitness ==
    /\ RemoveOfStocked
    /\ call.qty.n = Lookup(pre, call.item)
    /\ call.qty.n > 0
    /\ ~Has(data, call.item)
    /\ Len(data) = Len(pre) - 1

\* C5: remove_item of a stocked item with an int qty < its quantity keeps
\* the item, and get_qty of it is its quantity before the call minus qty.
RemovePartial ==
    (RemoveOfStocked /\ call.qty.n < Lookup(pre, call.item)) =>
        /\ Has(data, call.item)
        /\ GetQtyOf(data, call.item) = Lookup(pre, call.item) - call.qty.n
        /\ err = "none"

RemovePartialWitness ==
    /\ RemoveOfStocked
    /\ call.qty.n = 1
    /\ Lookup(pre, call.item) = 2
    /\ Has(data, call.item)
    /\ Lookup(data, call.item) = 1

\* C6: remove_item of an item that is not in the dict leaves the dict as
\* it was and raises nothing, whatever qty is.
RemoveAbsentNoop ==
    (call.op = "remove" /\ ~Has(pre, call.item)) =>
        data = pre /\ err = "none"

RemoveAbsentWitness ==
    /\ call.op = "remove"
    /\ call.item \in Names
    /\ ~Has(pre, call.item)
    /\ call.qty.t = "str"
    /\ Len(pre) = 2
    /\ data = pre

\* C7: check_low_items returns exactly the items whose quantity is
\* strictly below the threshold, each once, in the dict's iteration order,
\* and leaves the dict as it was.
LowStockExact ==
    call.op = "low" =>
        /\ {ret[i] : i \in 1..Len(ret)} =
               {k \in Keys(pre) : Lookup(pre, k) < call.threshold}
        /\ \A i, j \in 1..Len(ret) :
               i < j => IndexOf(pre, ret[i]) < IndexOf(pre, ret[j])
        /\ data = pre
        /\ err = "none"

LowStockWitness ==
    /\ call.op = "low"
    /\ Len(pre) = 3
    /\ pre[1].k = PyStr(<<"b">>)
    /\ pre[2].v = call.threshold
    /\ ret = <<pre[1].k, pre[3].k>>

\* C8: load_data of a path returns the dict save_data wrote there last,
\* whatever the file held before that save.
RoundTrip ==
    (call.op = "load" /\ saved[call.path].t = "dict") =>
        ret = saved[call.path].s /\ err = "none"

RoundTripWitness ==
    /\ call.op = "load"
    /\ saved[call.path].t = "dict"
    /\ Len(ret) = 2
    /\ ret[1].k = PyStr(<<"c", "\"", "\\">>)
    /\ ret[1].v = 10
    /\ ret[2].v = 0
    /\ \E p \in Paths : saved[p].t = "dict" /\ saved[p].s # ret
    /\ pre # ret

FrameOthers ==
    call.op \in {"add", "remove"} =>
        \A k \in Keys(pre) \cup Keys(data) :
            k # call.item =>
                /\ Has(pre, k) <=> Has(data, k)
                /\ DictGet(pre, k, 0) = DictGet(data, k, 0)

FrameOthersWitness ==
    /\ call.op = "remove"
    /\ Len(pre) = 3
    /\ Len(data) = 2
    /\ call.item = pre[2].k
    /\ data = <<pre[1], pre[3]>>

====
